---- MODULE Spec2Model ----
(***************************************************************************)
(* Model of app.py of CPH-CRC_Scanner: the working batch file CURRENT_CSV,  *)
(* the in-memory duplicate set SEEN_SERIALS, the lock CSV_LOCK, the archive *)
(* directory COMPLETED_FOLDER and the request handlers that run on the      *)
(* threads of the (threaded) Flask server.                                  *)
(*                                                                         *)
(* A string is a sequence of one-character strings, so that strip() and    *)
(* lower() are computed.  A CSV row is a sequence of four such strings.    *)
(***************************************************************************)
EXTENDS Integers, Sequences, FiniteSets, TLC

\* ------------------------------------------------------------------ bounds
\* Most writes a run keeps: the data rows of the batch file and of the exports,
\* the exported files, and the /add and /finalize requests under way.  No /add
\* and no /finalize request starts beyond it.
MaxWrites == 2
\* The same for the single-threaded specification SpecSeq.
MaxWritesSeq == 4
\* The same for the specification SpecStore, which has no /finalize.
MaxWritesStore == 6

\* The same for the specification SpecFair, with fair scheduling.
MaxWritesFair == 1

\* ------------------------------------------------------------ string helpers
Whitespace == {" ", "\t"}

\* str.lower() on one character (the letters the inputs use).
LowerChar(c) ==
    CASE c = "A" -> "a"
      [] c = "B" -> "b"
      [] c = "C" -> "c"
      [] c = "P" -> "p"
      [] c = "H" -> "h"
      [] OTHER -> c

\* str.lower()
Lower(s) == [i \in 1..Len(s) |-> LowerChar(s[i])]

RECURSIVE LStrip(_)
LStrip(s) == IF s # <<>> /\ Head(s) \in Whitespace THEN LStrip(Tail(s)) ELSE s

RECURSIVE RStrip(_)
RStrip(s) ==
    IF s # <<>> /\ s[Len(s)] \in Whitespace
    THEN RStrip(SubSeq(s, 1, Len(s) - 1))
    ELSE s

\* str.strip()
Strip(s) == RStrip(LStrip(s))

\* ----------------------------------------------------------------- literals
EQUIPMENT_TYPE == <<"E","q","u","i","p","m","e","n","t"," ","T","y","p","e">>
ITEM_DESCRIPTION == <<"I","t","e","m"," ","D","e","s","c","r","i","p","t","i","o","n">>
SERIAL_NUMBER == <<"S","e","r","i","a","l"," ","N","u","m","b","e","r">>
TEMPLE_TAG == <<"T","e","m","p","l","e"," ","T","a","g">>
NA == <<"N","/","A">>

\* CSV_HEADERS: the default of the environment variable, split on ",".
CSV_HEADERS == <<EQUIPMENT_TYPE, ITEM_DESCRIPTION, SERIAL_NUMBER, TEMPLE_TAG>>

\* dict.get(key, default) on a JSON object (a function from keys to strings).
Get(data, key, default) == IF key \in DOMAIN data THEN data[key] ELSE default

\* The JSON object with the one member k: v.
Obj1(k, v) == [x \in {k} |-> v]

\* ------------------------------------------------------------------- files
\* A file is absent, or holds a sequence of rows (no row: a file of size 0).
NoFile == [exists |-> FALSE, rows |-> <<>>]
File(rows) == [exists |-> TRUE, rows |-> rows]

\* csv.DictReader over the rows of a file: the first row gives the field
\* names, each later row is a dict keyed by them.  The value of row[key],
\* or <<>> when the key is no field name ("key in row" is false).
DictGet(fieldnames, row, key) ==
    IF \E i \in 1..Len(fieldnames) : fieldnames[i] = key /\ i <= Len(row)
    THEN row[CHOOSE i \in 1..Len(fieldnames) :
                 /\ fieldnames[i] = key /\ i <= Len(row)
                 /\ \A j \in 1..Len(fieldnames) :
                        (fieldnames[j] = key /\ j <= Len(row)) => j <= i]
    ELSE <<>>

\* What load_existing_serials adds to SEEN_SERIALS for one row of the reader:
\* nothing when the column is missing or its value is empty.
LoadedSerial(fieldnames, row) ==
    LET v == DictGet(fieldnames, row, SERIAL_NUMBER)
    IN IF v # <<>> THEN {Lower(Strip(v))} ELSE {}

\* Faulty variant of EnsureCsvFile: the header is written whatever the file holds.
EnsureCsvAlways(f) == File(<<CSV_HEADERS>>)

\* ensure_csv's effect on the file: write the header when the file is absent
\* or of size 0, else leave it.
EnsureCsvFile(f) == IF ~f.exists \/ f.rows = <<>> THEN File(<<CSV_HEADERS>>) ELSE f

\* The row append_row builds from the request data and the stripped serial.
BuildRow(d, serial) ==
    << Get(d, "Equipment Type", <<>>),
       Get(d, "Item Description", <<>>),
       serial,
       Get(d, "Temple Tag", NA) >>

\* api_recent: reader[1:][-5:], reversed.
RecentN == 5
LastN(s, n) == IF Len(s) <= n THEN s ELSE SubSeq(s, Len(s) - n + 1, Len(s))
Reverse(s) == [i \in 1..Len(s) |-> s[Len(s) + 1 - i]]
\* Faulty variant of RecentItems: the rows are not reversed.
RecentItemsOldestFirst(rows) ==
    IF Len(rows) > 1 THEN LastN(Tail(rows), RecentN) ELSE <<>>

RecentItems(rows) ==
    IF Len(rows) > 1 THEN Reverse(LastN(Tail(rows), RecentN)) ELSE <<>>

\* api_finalize: the export's name.  today_str is the day number.
BaseName(today) == <<today, "-cph-crc">>
PlainName(base) == base \o <<".xlsx">>
NumberedName(base, counter) == base \o <<"-", counter, ".xlsx">>

\* Faulty variant of FreeName: the name is taken whether or not it exists.
FreeNameOverwrite(names, base, filename, counter) == filename

RECURSIVE FreeName(_, _, _, _)
\* The while loop: the first name, from `filename` on, not in the directory.
FreeName(names, base, filename, counter) ==
    IF filename \in names
    THEN FreeName(names, base, NumberedName(base, counter), counter + 1)
    ELSE filename

\* Faulty variant of DestName: the counter starts at 2.
DestNameFromTwo(names, today) ==
    FreeName(names, BaseName(today), PlainName(BaseName(today)), 2)

DestName(names, today) ==
    FreeName(names, BaseName(today), PlainName(BaseName(today)), 1)

\* The workbook wb.save writes: one sheet row per row of the batch file.
Export(rows) == [complete |-> TRUE, rows |-> rows]
\* What a failed wb.save may leave at dest_path.
PartialExport == [complete |-> FALSE, rows |-> <<>>]

\* Directory with one more (or one replaced) file.
WithFile(dir, name, content) ==
    [n \in DOMAIN dir \cup {name} |-> IF n = name THEN content ELSE dir[n]]

\* --------------------------------------------------------------- responses
NoResp == [op |-> "none", code |-> 0, ok |-> FALSE, error |-> "", items |-> <<>>, filename |-> <<>>]
\* jsonify({"ok": success, "error": msg}) of /add
AddResp(success, msg) == [NoResp EXCEPT !.op = "add", !.code = 200, !.ok = success, !.error = msg]
\* jsonify({"items": ...}) of /recent
RecentResp(items) == [NoResp EXCEPT !.op = "recent", !.code = 200, !.items = items]
\* jsonify({"ok": True, "filename": filename}) of /finalize
FinalizeOk(filename) == [NoResp EXCEPT !.op = "finalize", !.code = 200, !.ok = TRUE, !.filename = filename]
\* jsonify({"error": ...}), 400 or 500 of /finalize
FinalizeError(code, msg) == [NoResp EXCEPT !.op = "finalize", !.code = code, !.error = msg]
\* jsonify({"ok": True}) of /reset_batch
ResetResp == [NoResp EXCEPT !.op = "reset", !.code = 200, !.ok = TRUE]
\* render_template("index.html") of /
IndexResp == [NoResp EXCEPT !.op = "index", !.code = 200]

\* ============================================================ /lookup
\* str.upper() on one character (the letters the inputs use).
UpperChar(c) ==
    CASE c = "a" -> "A"
      [] c = "b" -> "B"
      [] c = "c" -> "C"
      [] c = "p" -> "P"
      [] c = "h" -> "H"
      [] OTHER -> c

\* str.upper()
Upper(s) == [i \in 1..Len(s) |-> UpperChar(s[i])]

Digits == {"0", "1", "2", "3", "4", "5", "6", "7", "8", "9"}

\* str.isdigit(): not empty and digits only.
IsDigit(s) == s # <<>> /\ \A i \in 1..Len(s) : s[i] \in Digits

\* str.startswith(prefix)
StartsWith(s, prefix) == Len(s) >= Len(prefix) /\ SubSeq(s, 1, Len(prefix)) = prefix

CPH == <<"C", "P", "H">>
COMPUTER == <<"C", "o", "m", "p", "u", "t", "e", "r">>
\* line 182: a digit-only term shorter than this is taken for a tag.
TagDigits == 8

\* Faulty variant of IsLikelyTag: the length is tested with <=.
IsLikelyTagUpTo(term) ==
    StartsWith(Upper(term), CPH) \/ (IsDigit(term) /\ Len(term) <= TagDigits)

\* api_lookup, line 182: is_likely_tag
IsLikelyTag(term) ==
    StartsWith(Upper(term), CPH) \/ (IsDigit(term) /\ Len(term) < TagDigits)

\* The dict that api_lookup and lookup_snipe answer with.
Record(type, desc, sn, tag, found) ==
    [EquipmentType |-> type, ItemDescription |-> desc, SerialNumber |-> sn,
     TempleTag |-> tag, found_in_snipe |-> found]

\* api_lookup, lines 184-192: the answer when the registry gave nothing.
Heuristic(term) ==
    Record(COMPUTER, <<>>,
           IF IsLikelyTag(term) THEN <<>> ELSE term,
           IF IsLikelyTag(term) THEN term ELSE <<>>,
           FALSE)

\* ----- JSON values of the registry's replies
\* A value that r.json() may give: kind "invalid" (r.json() raises), "scalar"
\* (a string, a list: anything that is no object) or "object"; id: whether
\* `"id" in d` holds; hasRows, rows: the member "rows"; fields: the members
\* of an asset.
Json(kind, id, hasRows, rows, fields) ==
    [kind |-> kind, id |-> id, hasRows |-> hasRows, rows |-> rows, fields |-> fields]

\* The member manufacturer, model or category of an asset: null, or an object
\* that may have a name.
Null == [null |-> TRUE, hasName |-> FALSE, name |-> <<>>]
Named(name) == [null |-> FALSE, hasName |-> TRUE, name |-> name]
Nameless == [null |-> FALSE, hasName |-> FALSE, name |-> <<>>]

\* An asset of the registry, with the member "id".
Asset(fields) == Json("object", TRUE, FALSE, <<>>, fields)

\* dict.get(key, {}) followed by .get("name", default): the two lookups of
\* lines 149, 150 and 154.  None.get raises AttributeError.
SubRaises(hw, key) == key \in DOMAIN hw.fields /\ hw.fields[key].null
SubName(hw, key, default) ==
    IF key \in DOMAIN hw.fields /\ hw.fields[key].hasName
    THEN hw.fields[key].name
    ELSE default

\* An HTTP reply: the transport failed (or timed out), or a status and a body.
Reply(fails, status, body) == [fails |-> fails, status |-> status, body |-> body]

\* lookup_snipe.get_data, lines 121-137: the rows of a reply; [] on any
\* failure inside the try block.
GetData(reply) ==
    IF reply.fails \/ reply.status # 200 \/ reply.body.kind = "invalid" THEN <<>>
    ELSE IF reply.body.id THEN <<reply.body>>
    ELSE IF reply.body.kind # "object" THEN <<>>
    ELSE IF reply.body.hasRows THEN reply.body.rows
    ELSE <<>>

\* lines 147-159: whether building the record from hw raises (hw.get on a
\* value that is no object, .get on a null member).
BuildRaises(hw) ==
    \/ hw.kind # "object"
    \/ SubRaises(hw, "manufacturer") \/ SubRaises(hw, "model") \/ SubRaises(hw, "category")

\* lines 147-159: the record built from hw.
BuildRecord(hw) ==
    Record(SubName(hw, "category", COMPUTER),
           Strip(SubName(hw, "manufacturer", <<>>) \o <<" ">> \o SubName(hw, "model", <<>>)),
           Get(hw.fields, "serial", <<>>),
           Get(hw.fields, "asset_tag", <<>>),
           TRUE)

\* ----- inputs of /lookup
\* The JSON bodies posted to /lookup.
LookupInputs ==
    { <<>>,
      Obj1("serial", <<"C","P","H","4">>),
      Obj1("serial", <<" ","c","p","h","4"," ">>),
      Obj1("serial", <<"1","2","3","4","5","6","7">>),
      Obj1("serial", <<"1","2","3","4","5","6","7","8">>),
      Obj1("serial", <<"9","8","7","6","5","4","3","2","1","0","9","8","7">>),
      Obj1("serial", <<"1","2","a">>),
      Obj1("serial", <<"A","B">>) }

\* The values of the environment variables SNIPE_URL and SNIPE_API_TOKEN:
\* unset (None), or set.
Urls == { <<>>, <<"u">> }
Tokens == { <<>>, <<"k">> }

NoJson == Json("invalid", FALSE, FALSE, <<>>, <<>>)
\* An asset with every member.
AssetFull ==
    Asset([x \in {"manufacturer", "model", "category", "serial", "asset_tag"} |->
            CASE x = "manufacturer" -> Named(<<"D">>)
              [] x = "model" -> Named(<<"M">>)
              [] x = "category" -> Named(<<"L">>)
              [] x = "serial" -> <<"S","1">>
              [] x = "asset_tag" -> <<"C","P","H","1">>])
\* An asset without manufacturer and category, and with a model without name.
AssetBare ==
    Asset([x \in {"model", "serial"} |->
            CASE x = "model" -> Nameless
              [] x = "serial" -> <<"S","2">>])
\* An asset whose model has no manufacturer: "manufacturer": null.
AssetNullMaker ==
    Asset([x \in {"manufacturer", "model"} |->
            CASE x = "manufacturer" -> Null
              [] x = "model" -> Named(<<"M">>)])

\* The replies the registry may give to one request.
Replies ==
    { Reply(TRUE, 0, NoJson),                                        \* no connection, timeout
      Reply(FALSE, 404, NoJson),                                     \* non-success status
      Reply(FALSE, 200, NoJson),                                     \* body is no JSON
      Reply(FALSE, 200, Json("scalar", FALSE, FALSE, <<>>, <<>>)),   \* a list
      Reply(FALSE, 200, Json("scalar", TRUE, FALSE, <<>>, <<>>)),    \* a string holding "id"
      Reply(FALSE, 200, Json("object", FALSE, FALSE, <<>>, <<>>)),   \* {"status": "error"}
      Reply(FALSE, 200, Json("object", FALSE, TRUE, <<>>, <<>>)),    \* {"rows": []}
      Reply(FALSE, 200, Json("object", FALSE, TRUE, <<AssetBare, AssetFull>>, <<>>)),
      Reply(FALSE, 200, AssetFull),
      Reply(FALSE, 200, AssetNullMaker) }

\* The answers of /lookup: jsonify(...), or the 500 Flask gives for an
\* exception the handler lets through.
NoLookupResp == [code |-> 0, body |-> <<>>]
LookupOk(record) == [code |-> 200, body |-> <<record>>]
LookupError == [code |-> 500, body |-> <<>>]

\* The request get_data sends: the endpoint and params.
Request(endpoint, t, limit) == [endpoint |-> endpoint, term |-> t, limit |-> limit]

\* ------------------------------------------------------------------ inputs
Threads == {1, 2}
MainThread == 1
Free == 0
\* The days datetime.now() may report: in the threaded specification the date
\* does not change during the run, in the single-threaded one it may.
Days == {1}
DaysSeq == {1, 2}

\* The JSON bodies of /add the threads post.
AddInputs ==
    { <<>>,
      Obj1("Serial Number", <<"A","B">>),
      Obj1("Serial Number", <<"a","b"," ">>) }
\* The JSON bodies of the single-threaded specification.
AddInputsSeq ==
    { <<>>,
      Obj1("Serial Number", <<"a","b"," ">>),
      [x \in {"Equipment Type", "Item Description", "Serial Number", "Temple Tag"} |->
          CASE x = "Equipment Type" -> <<"P","C">>
            [] x = "Item Description" -> <<"D">>
            [] x = "Serial Number" -> <<" ","A","B">>
            [] x = "Temple Tag" -> <<"C","P","H","1">>] }
\* The JSON bodies of the specification of the record store.
AddInputsStore ==
    { <<>>,
      Obj1("Temple Tag", <<"C","P","H","1">>),
      Obj1("Serial Number", <<" ">>),
      Obj1("Serial Number", <<"A","B">>),
      Obj1("Serial Number", <<"a","b"," ">>) }

\* The JSON bodies of the specification with fair scheduling.
AddInputsFair == { <<>>, Obj1("Serial Number", <<"A","B">>) }

\* The batch file a previous run may have left at process start.
InitialFiles ==
    { NoFile, File(<<>>), File(<<CSV_HEADERS, BuildRow(<<>>, <<"A","B">>)>>) }
\* The archive directory at process start.
InitialFolders == { <<>> }

\* ------------------------------------------------------------------- state
VARIABLES
    CURRENT_CSV,       \* the batch file
    COMPLETED_FOLDER,  \* the archive directory: file name -> content
    SEEN_SERIALS,      \* the in-memory duplicate set
    CSV_LOCK,          \* Free, or the thread holding the lock
    op,                \* per thread: the handler it runs ("none": no request)
    pc,                \* per thread: its position in the handler
    data,              \* per thread: request.json of /add
    serial,            \* per thread: append_row's local `serial`
    reader,            \* per thread: load_existing_serials' DictReader
    resp,              \* per thread: the response, once the handler has returned
    lastFinalize,      \* history: the last successful /finalize (see NoFinalize)
    SNIPE_URL,         \* the environment variable SNIPE_URL (<<>>: unset)
    SNIPE_TOKEN,       \* the environment variable SNIPE_API_TOKEN (<<>>: unset)
    lpc,               \* /lookup: the handler's position
    term,              \* /lookup: the stripped search term
    snipeRows,         \* /lookup: lookup_snipe's local `rows`
    res,               \* /lookup: api_lookup's local `res` (<<>>: None)
    requests,          \* /lookup, history: the requests sent to the registry
    replies,           \* /lookup, history: the replies it gave
    lresp              \* /lookup: the response

\* The state of the batch handlers, and the state of /lookup.
batchVars == <<CURRENT_CSV, COMPLETED_FOLDER, SEEN_SERIALS, CSV_LOCK, op, pc, data, serial,
               reader, resp, lastFinalize>>
lookupVars == <<SNIPE_URL, SNIPE_TOKEN, lpc, term, snipeRows, res, requests, replies, lresp>>
vars == <<batchVars, lookupVars>>

NoReader == [fieldnames |-> <<>>, rows |-> <<>>]

\* lastFinalize: the name the last successful /finalize returned (its first
\* element is the day), whether no handler other than /finalize has taken a
\* step since it returned (quiet) and whether no row has been appended since
\* (empty).
NoFinalize == [filename |-> <<>>, quiet |-> FALSE, empty |-> FALSE]
\* The history after a step of another handler.
Disturbed == [lastFinalize EXCEPT !.quiet = FALSE]

\* Module import (SEEN_SERIALS = set(), lock free) with the main thread about
\* to run ensure_csv() and load_existing_serials() before app.run serves.
BatchInit ==
    /\ CURRENT_CSV \in InitialFiles
    /\ COMPLETED_FOLDER \in InitialFolders
    /\ SEEN_SERIALS = {}
    /\ CSV_LOCK = Free
    /\ op = [t \in Threads |-> IF t = MainThread THEN "main" ELSE "none"]
    /\ pc = [t \in Threads |-> IF t = MainThread THEN "ensure_lock" ELSE "idle"]
    /\ data = [t \in Threads |-> <<>>]
    /\ serial = [t \in Threads |-> <<>>]
    /\ reader = [t \in Threads |-> NoReader]
    /\ resp = [t \in Threads |-> NoResp]
    /\ lastFinalize = NoFinalize

\* No /lookup request is under way.
LookupIdle ==
    /\ lpc = "idle"
    /\ term = <<>> /\ snipeRows = <<>> /\ res = <<>>
    /\ requests = <<>> /\ replies = <<>>
    /\ lresp = NoLookupResp

\* The batch handlers read neither SNIPE_URL nor SNIPE_API_TOKEN: here they
\* are unset.
Init == BatchInit /\ LookupIdle /\ SNIPE_URL = <<>> /\ SNIPE_TOKEN = <<>>

\* app.run() is reached once the main thread is through its start-up calls.
Serving == \A t \in Threads : op[t] # "main"

\* ------------------------------------------------------------------ helpers
Goto(t, label) == pc' = [pc EXCEPT ![t] = label]

\* The handler returns `r`.
Return(t, r) ==
    /\ pc' = [pc EXCEPT ![t] = "done"]
    /\ resp' = [resp EXCEPT ![t] = r]

\* `with CSV_LOCK:` entered: blocks until the lock is free.
Acquire(t) == CSV_LOCK = Free /\ CSV_LOCK' = t
\* Faulty variant of Release: the block is left with the lock still held.
ReleaseNever(t) == CSV_LOCK = t /\ CSV_LOCK' = t

\* `with CSV_LOCK:` left.
Release(t) == CSV_LOCK = t /\ CSV_LOCK' = Free

\* ------------------------------------------------------------- ensure_csv
\* ensure_csv, line 73: wait for the lock.
EnsureLock(t) ==
    /\ pc[t] = "ensure_lock"
    /\ Acquire(t)
    /\ Goto(t, "ensure")
    /\ lastFinalize' = Disturbed
    /\ UNCHANGED <<CURRENT_CSV, COMPLETED_FOLDER, SEEN_SERIALS, op, data, serial, reader, resp, lookupVars>>

\* Where the caller of ensure_csv goes on.
AfterEnsure(o) ==
    CASE o = "main" -> "load_clear"
      [] o = "add" -> "check"
      [] o = "recent" -> "recent_lock"

\* ensure_csv, lines 74-77, and the release of the lock.
Ensure(t) ==
    /\ pc[t] = "ensure"
    /\ CURRENT_CSV' = EnsureCsvFile(CURRENT_CSV)
    /\ Release(t)
    /\ Goto(t, AfterEnsure(op[t]))
    /\ lastFinalize' = Disturbed
    /\ UNCHANGED <<COMPLETED_FOLDER, SEEN_SERIALS, op, data, serial, reader, resp, lookupVars>>

\* --------------------------------------------------- load_existing_serials
\* line 59: SEEN_SERIALS.clear()  (no lock is taken)
LoadClear(t) ==
    /\ pc[t] = "load_clear"
    /\ SEEN_SERIALS' = {}
    /\ Goto(t, "load_read")
    /\ lastFinalize' = Disturbed
    /\ UNCHANGED <<CURRENT_CSV, COMPLETED_FOLDER, CSV_LOCK, op, data, serial, reader, resp, lookupVars>>

\* lines 60-63: the file, if it exists, is opened and read into the reader
\* (a file that vanished before open() raises, which is logged).
LoadRead(t) ==
    /\ pc[t] = "load_read"
    /\ reader' = [reader EXCEPT ![t] =
          IF CURRENT_CSV.exists /\ CURRENT_CSV.rows # <<>>
          THEN [fieldnames |-> Head(CURRENT_CSV.rows), rows |-> Tail(CURRENT_CSV.rows)]
          ELSE NoReader]
    /\ Goto(t, "load_add")
    /\ lastFinalize' = Disturbed
    /\ UNCHANGED <<CURRENT_CSV, COMPLETED_FOLDER, SEEN_SERIALS, CSV_LOCK, op, data, serial, resp, lookupVars>>

\* lines 64-67: one iteration of the loop over the reader.
LoadAdd(t) ==
    /\ pc[t] = "load_add"
    /\ reader[t].rows # <<>>
    /\ SEEN_SERIALS' = SEEN_SERIALS \cup LoadedSerial(reader[t].fieldnames, Head(reader[t].rows))
    /\ reader' = [reader EXCEPT ![t].rows = Tail(@)]
    /\ lastFinalize' = Disturbed
    /\ UNCHANGED <<CURRENT_CSV, COMPLETED_FOLDER, CSV_LOCK, op, pc, data, serial, resp, lookupVars>>

\* The loop is over: load_existing_serials returns, to __main__ (which goes on
\* to app.run) or to index (which renders the page).
LoadDone(t) ==
    /\ pc[t] = "load_add"
    /\ reader[t].rows = <<>>
    /\ reader' = [reader EXCEPT ![t] = NoReader]
    /\ IF op[t] = "main"
       THEN /\ op' = [op EXCEPT ![t] = "none"]
            /\ Goto(t, "idle")
            /\ UNCHANGED resp
       ELSE /\ Return(t, IndexResp)
            /\ UNCHANGED op
    /\ lastFinalize' = Disturbed
    /\ UNCHANGED <<CURRENT_CSV, COMPLETED_FOLDER, SEEN_SERIALS, CSV_LOCK, data, serial, lookupVars>>

\* ------------------------------------------------------------------ index
\* GET /: index() calls load_existing_serials().
Index(t) ==
    /\ Serving /\ pc[t] = "idle"
    /\ op' = [op EXCEPT ![t] = "index"]
    /\ Goto(t, "load_clear")
    /\ lastFinalize' = Disturbed
    /\ UNCHANGED <<CURRENT_CSV, COMPLETED_FOLDER, SEEN_SERIALS, CSV_LOCK, data, serial, reader, resp, lookupVars>>

\* ------------------------------------------------------- /add, append_row
\* Requests past the start of append_row that have not written yet.
Appending == {t \in Threads : op[t] = "add" /\ pc[t] # "done"}

\* The data rows among `rows`, as positions.
DataRowsAt(rows) == {j \in 1..Len(rows) : rows[j] # CSV_HEADERS}

\* Requests inside api_finalize.
Finalizing == {t \in Threads : op[t] = "finalize" /\ pc[t] # "done"}

\* How many writes the run keeps: data rows of the batch file and of the
\* exports, exported files, requests that are about to write.
Written ==
    Cardinality(DataRowsAt(CURRENT_CSV.rows))
    + Cardinality(UNION { {<<n, i>> : i \in DataRowsAt(COMPLETED_FOLDER[n].rows)} :
                          n \in DOMAIN COMPLETED_FOLDER })
    + Cardinality(DOMAIN COMPLETED_FOLDER)
    + Cardinality(Appending) + Cardinality(Finalizing)

\* POST /add with body d: api_add calls append_row, which calls ensure_csv.
Add(t, inputs, maxWrites) ==
    /\ Serving /\ pc[t] = "idle"
    /\ Written < maxWrites
    /\ \E d \in inputs : data' = [data EXCEPT ![t] = d]
    /\ op' = [op EXCEPT ![t] = "add"]
    /\ Goto(t, "ensure_lock")
    /\ lastFinalize' = Disturbed
    /\ UNCHANGED <<CURRENT_CSV, COMPLETED_FOLDER, SEEN_SERIALS, CSV_LOCK, serial, reader, resp, lookupVars>>

\* append_row, line 85: the duplicate test.
IsDuplicate(s, seen) == s # <<>> /\ Lower(s) \in seen

\* append_row, lines 83-86: strip the serial and test it against SEEN_SERIALS
\* (no lock is held).
Check(t) ==
    /\ pc[t] = "check"
    /\ LET s == Strip(Get(data[t], "Serial Number", <<>>))
       IN /\ serial' = [serial EXCEPT ![t] = s]
          /\ IF IsDuplicate(s, SEEN_SERIALS)
             THEN Return(t, AddResp(FALSE, "Duplicate Serial detected in this batch."))
             ELSE Goto(t, "append_lock") /\ UNCHANGED resp
    /\ lastFinalize' = Disturbed
    /\ UNCHANGED <<CURRENT_CSV, COMPLETED_FOLDER, SEEN_SERIALS, CSV_LOCK, op, data, reader, lookupVars>>

\* append_row, line 88: wait for the lock.
AppendLock(t) ==
    /\ pc[t] = "append_lock"
    /\ Acquire(t)
    /\ Goto(t, "append")
    /\ lastFinalize' = Disturbed
    /\ UNCHANGED <<CURRENT_CSV, COMPLETED_FOLDER, SEEN_SERIALS, op, data, serial, reader, resp, lookupVars>>

\* open(CURRENT_CSV, "a") and writerow: the file is created when absent.
Appended(f, row) == File(f.rows \o <<row>>)

\* Faulty variant of Remembered: the test of line 102 is missing.
RememberedAlways(seen, s) == seen \cup {Lower(s)}

\* SEEN_SERIALS after lines 102-103.
Remembered(seen, s) == IF s # <<>> THEN seen \cup {Lower(s)} ELSE seen

\* append_row, lines 89-106: write the row and remember the serial, or the
\* except branch when the write raises; then the lock is released.
AppendRow(t) ==
    /\ pc[t] = "append"
    /\ Release(t)
    /\ \E raised \in BOOLEAN :
         IF raised
         THEN /\ Return(t, AddResp(FALSE, "str(e)"))
              /\ lastFinalize' = Disturbed
              /\ UNCHANGED <<CURRENT_CSV, SEEN_SERIALS>>
         ELSE /\ CURRENT_CSV' = Appended(CURRENT_CSV, BuildRow(data[t], serial[t]))
              /\ SEEN_SERIALS' = Remembered(SEEN_SERIALS, serial[t])
              /\ Return(t, AddResp(TRUE, "Saved"))
              /\ lastFinalize' = [lastFinalize EXCEPT !.quiet = FALSE, !.empty = FALSE]
    /\ UNCHANGED <<COMPLETED_FOLDER, op, data, serial, reader, lookupVars>>

\* ---------------------------------------------------------------- /recent
\* GET /recent: api_recent calls ensure_csv.
Recent(t) ==
    /\ Serving /\ pc[t] = "idle"
    /\ op' = [op EXCEPT ![t] = "recent"]
    /\ Goto(t, "ensure_lock")
    /\ lastFinalize' = Disturbed
    /\ UNCHANGED <<CURRENT_CSV, COMPLETED_FOLDER, SEEN_SERIALS, CSV_LOCK, data, serial, reader, resp, lookupVars>>

\* api_recent, line 206: wait for the lock.
RecentLock(t) ==
    /\ pc[t] = "recent_lock"
    /\ Acquire(t)
    /\ Goto(t, "recent_read")
    /\ lastFinalize' = Disturbed
    /\ UNCHANGED <<CURRENT_CSV, COMPLETED_FOLDER, SEEN_SERIALS, op, data, serial, reader, resp, lookupVars>>

\* What api_recent answers for the file f: open() raises when it is absent,
\* and the bare except leads to the empty answer.
RecentOf(f) == IF f.exists THEN RecentItems(f.rows) ELSE <<>>

\* api_recent, lines 207-215, and the release of the lock.
RecentRead(t) ==
    /\ pc[t] = "recent_read"
    /\ Release(t)
    /\ Return(t, RecentResp(RecentOf(CURRENT_CSV)))
    /\ lastFinalize' = Disturbed
    /\ UNCHANGED <<CURRENT_CSV, COMPLETED_FOLDER, SEEN_SERIALS, op, data, serial, reader, lookupVars>>

\* -------------------------------------------------------------- /finalize
\* POST /finalize: api_finalize, line 220: wait for the lock.
Finalize(t, maxWrites) ==
    /\ Serving /\ pc[t] = "idle"
    /\ Written < maxWrites
    /\ op' = [op EXCEPT ![t] = "finalize"]
    /\ Goto(t, "finalize_lock")
    /\ UNCHANGED <<CURRENT_CSV, COMPLETED_FOLDER, SEEN_SERIALS, CSV_LOCK, data, serial, reader, resp, lastFinalize, lookupVars>>

FinalizeLock(t) ==
    /\ pc[t] = "finalize_lock"
    /\ Acquire(t)
    /\ Goto(t, "finalize")
    /\ UNCHANGED <<CURRENT_CSV, COMPLETED_FOLDER, SEEN_SERIALS, op, data, serial, reader, resp, lastFinalize, lookupVars>>

\* Where the try block of api_finalize may raise: nowhere, while the batch
\* file is read and converted, in wb.save (leaving nothing, or a partial file,
\* at dest_path), or in os.remove.
Raises == {"none", "read", "save", "partial", "remove"}

\* The directory after wb.save(dest_path), under each outcome.
Saved(dir, name, rows, raised) ==
    CASE raised \in {"none", "remove"} -> WithFile(dir, name, Export(rows))
      [] raised = "partial" -> WithFile(dir, name, PartialExport)
      [] OTHER -> dir

\* Faulty variant of Rotated: the batch file is removed before the export is saved.
RotatedAlways(f, raised) == NoFile

\* The batch file after lines 253-256: removed once the export is saved.
Rotated(f, raised) == IF raised = "none" THEN NoFile ELSE f

\* Faulty variant of Forgotten: line 257 is missing.
ForgottenNever(seen, raised) == seen

\* SEEN_SERIALS after line 257.
Forgotten(seen, raised) == IF raised = "none" THEN {} ELSE seen

\* Faulty variant of NoData: the size is tested in place of the existence.
NoDataIfEmpty(f) == f.exists /\ f.rows = <<>>

\* api_finalize, line 221: there is nothing to finalize.
NoData(f) == ~f.exists

\* api_finalize, lines 221-263, and the release of the lock.
FinalizeBody(t, days) ==
    /\ pc[t] = "finalize"
    /\ Release(t)
    /\ IF NoData(CURRENT_CSV)
       THEN /\ Return(t, FinalizeError(400, "No data to finalize"))
            /\ UNCHANGED <<CURRENT_CSV, COMPLETED_FOLDER, SEEN_SERIALS, lastFinalize>>
       ELSE \E raised \in Raises, today \in days :
              LET filename == DestName(DOMAIN COMPLETED_FOLDER, today)
              IN /\ COMPLETED_FOLDER' = Saved(COMPLETED_FOLDER, filename, CURRENT_CSV.rows, raised)
                 /\ CURRENT_CSV' = Rotated(CURRENT_CSV, raised)
                 /\ SEEN_SERIALS' = Forgotten(SEEN_SERIALS, raised)
                 /\ IF raised = "none"
                    THEN /\ Return(t, FinalizeOk(filename))
                         /\ lastFinalize' = [filename |-> filename, quiet |-> TRUE,
                                             empty |-> TRUE]
                    ELSE /\ Return(t, FinalizeError(500, "str(e)"))
                         /\ UNCHANGED lastFinalize
    /\ UNCHANGED <<op, data, serial, reader, lookupVars>>

\* ----------------------------------------------------------- /reset_batch
\* POST /reset_batch: api_reset_batch, line 269: wait for the lock.
Reset(t) ==
    /\ Serving /\ pc[t] = "idle"
    /\ op' = [op EXCEPT ![t] = "reset"]
    /\ Goto(t, "reset_lock")
    /\ lastFinalize' = Disturbed
    /\ UNCHANGED <<CURRENT_CSV, COMPLETED_FOLDER, SEEN_SERIALS, CSV_LOCK, data, serial, reader, resp, lookupVars>>

ResetLock(t) ==
    /\ pc[t] = "reset_lock"
    /\ Acquire(t)
    /\ Goto(t, "reset")
    /\ lastFinalize' = Disturbed
    /\ UNCHANGED <<CURRENT_CSV, COMPLETED_FOLDER, SEEN_SERIALS, op, data, serial, reader, resp, lookupVars>>

\* Faulty variant of Truncated: the file is opened in mode "a".
TruncatedAppends(f) == File(f.rows \o <<CSV_HEADERS>>)

\* open(CURRENT_CSV, "w") and writerow(CSV_HEADERS).
Truncated(f) == File(<<CSV_HEADERS>>)

\* api_reset_batch, lines 270-275, and the release of the lock.
ResetBody(t) ==
    /\ pc[t] = "reset"
    /\ Release(t)
    /\ CURRENT_CSV' = Truncated(CURRENT_CSV)
    /\ SEEN_SERIALS' = {}
    /\ Return(t, ResetResp)
    /\ lastFinalize' = Disturbed
    /\ UNCHANGED <<COMPLETED_FOLDER, op, data, serial, reader, lookupVars>>

\* ------------------------------------------------------------ environment
\* The response is sent and the thread is free for the next request.
Respond(t) ==
    /\ pc[t] = "done"
    /\ op' = [op EXCEPT ![t] = "none"]
    /\ Goto(t, "idle")
    /\ resp' = [resp EXCEPT ![t] = NoResp]
    /\ data' = [data EXCEPT ![t] = <<>>]
    /\ serial' = [serial EXCEPT ![t] = <<>>]
    /\ UNCHANGED <<CURRENT_CSV, COMPLETED_FOLDER, SEEN_SERIALS, CSV_LOCK, reader, lastFinalize, lookupVars>>


\* ----- the handler
\* POST /lookup with body d: api_lookup, lines 172-176, and lookup_snipe,
\* lines 110-113.
Lookup ==
    /\ Serving /\ lpc = "idle"
    /\ \E d \in LookupInputs :
         /\ term' = Strip(Get(d, "serial", <<>>))
         /\ IF SNIPE_URL = <<>> \/ SNIPE_TOKEN = <<>> \/ term' = <<>>
            THEN lpc' = "answer"
            ELSE lpc' = "bytag"
    /\ res' = <<>>
    /\ UNCHANGED <<SNIPE_URL, SNIPE_TOKEN, snipeRows, requests, replies, lresp, batchVars>>

\* One call of get_data and the `if not rows` that follows it.
GetRows(at, request, found, notFound) ==
    /\ lpc = at
    /\ \E reply \in Replies :
         /\ snipeRows' = GetData(reply)
         /\ replies' = Append(replies, reply)
         /\ lpc' = IF snipeRows' = <<>> THEN notFound ELSE found
    /\ requests' = Append(requests, request)
    /\ UNCHANGED <<SNIPE_URL, SNIPE_TOKEN, term, res, lresp, batchVars>>

\* Faulty variant of ByTag: the search is tried right after the tag.
ByTagThenSearch == GetRows("bytag", Request("bytag", term, 0), "build", "search")

\* line 140
ByTag == GetRows("bytag", Request("bytag", term, 0), "build", "byserial")
\* lines 141-142
BySerial == GetRows("byserial", Request("byserial", term, 0), "build", "search")
\* lines 143-144
Search == GetRows("search", Request("search", term, 1), "build", "build")

\* lines 146-160: the record of the first row, or None; an exception raised
\* here leaves lookup_snipe and api_lookup.
Build ==
    /\ lpc = "build"
    /\ IF snipeRows = <<>>
       THEN res' = <<>> /\ lpc' = "answer" /\ UNCHANGED lresp
       ELSE IF BuildRaises(snipeRows[1])
       THEN lresp' = LookupError /\ lpc' = "done" /\ UNCHANGED res
       ELSE res' = <<BuildRecord(snipeRows[1])>> /\ lpc' = "answer" /\ UNCHANGED lresp
    /\ UNCHANGED <<SNIPE_URL, SNIPE_TOKEN, term, snipeRows, requests, replies, batchVars>>

\* api_lookup, lines 178-192.
Answer ==
    /\ lpc = "answer"
    /\ lresp' = IF res # <<>> THEN LookupOk(res[1]) ELSE LookupOk(Heuristic(term))
    /\ lpc' = "done"
    /\ UNCHANGED <<SNIPE_URL, SNIPE_TOKEN, term, snipeRows, res, requests, replies, batchVars>>

\* The response is sent.
LookupRespond ==
    /\ lpc = "done"
    /\ lpc' = "idle"
    /\ term' = <<>> /\ snipeRows' = <<>> /\ res' = <<>>
    /\ requests' = <<>> /\ replies' = <<>>
    /\ lresp' = NoLookupResp
    /\ UNCHANGED <<SNIPE_URL, SNIPE_TOKEN, batchVars>>

\* ----------------------------------------------------------- specification
Step(t, inputs, days, maxWrites) ==
    \/ EnsureLock(t) \/ Ensure(t)
    \/ LoadClear(t) \/ LoadRead(t) \/ LoadAdd(t) \/ LoadDone(t)
    \/ Index(t)
    \/ Add(t, inputs, maxWrites) \/ Check(t) \/ AppendLock(t) \/ AppendRow(t)
    \/ Recent(t) \/ RecentLock(t) \/ RecentRead(t)
    \/ Finalize(t, maxWrites) \/ FinalizeLock(t) \/ FinalizeBody(t, days)
    \/ Reset(t) \/ ResetLock(t) \/ ResetBody(t)
    \/ Respond(t)

\* The threaded server.
Next == \E t \in Threads : Step(t, AddInputs, Days, MaxWrites)
Spec == Init /\ [][Next]_vars

\* One request at a time.
NextSeq == Step(MainThread, AddInputsSeq, DaysSeq, MaxWritesSeq)
SpecSeq == Init /\ [][NextSeq]_vars

\* The record store alone, one request at a time: start-up, /, /add, /recent
\* and /reset_batch over batches long enough for /recent to leave rows out.
NextStore ==
    \/ EnsureLock(MainThread) \/ Ensure(MainThread)
    \/ LoadClear(MainThread) \/ LoadRead(MainThread) \/ LoadAdd(MainThread)
    \/ LoadDone(MainThread)
    \/ Index(MainThread)
    \/ Add(MainThread, AddInputsStore, MaxWritesStore) \/ Check(MainThread)
    \/ AppendLock(MainThread) \/ AppendRow(MainThread)
    \/ Recent(MainThread) \/ RecentLock(MainThread) \/ RecentRead(MainThread)
    \/ Reset(MainThread) \/ ResetLock(MainThread) \/ ResetBody(MainThread)
    \/ Respond(MainThread)
SpecStore == Init /\ [][NextStore]_vars

\* The threaded server under fair scheduling: a thread that can take a step
\* of its handler takes it in the end, and a thread that waits for CSV_LOCK
\* gets it in the end when the lock is released again and again.
Progress(t) ==
    \/ Ensure(t)
    \/ LoadClear(t) \/ LoadRead(t) \/ LoadAdd(t) \/ LoadDone(t)
    \/ Check(t) \/ AppendRow(t)
    \/ RecentRead(t)
    \/ FinalizeBody(t, Days)
    \/ ResetBody(t)
    \/ Respond(t)
TakeLock(t) ==
    \/ EnsureLock(t) \/ AppendLock(t) \/ RecentLock(t) \/ FinalizeLock(t) \/ ResetLock(t)
NextFair == \E t \in Threads : Step(t, AddInputsFair, Days, MaxWritesFair)
SpecFair ==
    /\ Init /\ [][NextFair]_vars
    /\ \A t \in Threads : WF_vars(Progress(t)) /\ SF_vars(TakeLock(t))

\* /lookup alone, after the start-up of the main thread, under every setting
\* of the registry's URL and token.
InitLookup == BatchInit /\ LookupIdle /\ SNIPE_URL \in Urls /\ SNIPE_TOKEN \in Tokens
NextLookup ==
    \/ EnsureLock(MainThread) \/ Ensure(MainThread)
    \/ LoadClear(MainThread) \/ LoadRead(MainThread) \/ LoadAdd(MainThread)
    \/ LoadDone(MainThread)
    \/ Lookup \/ ByTag \/ BySerial \/ Search \/ Build \/ Answer \/ LookupRespond
SpecLookup == InitLookup /\ [][NextLookup]_vars

\* ================================================================== claims
\* The duplicate key of a row: its Serial Number, trimmed and case-folded.
Key(row) == Lower(Strip(row[3]))

\* The data rows of the batch file with the key k.
RowsWithKey(k) == {i \in DataRowsAt(CURRENT_CSV.rows) : Key(CURRENT_CSV.rows[i]) = k}

\* The thread has passed the duplicate test of append_row and not written yet.
PassedCheck(t) == op[t] = "add" /\ pc[t] \in {"append_lock", "append"}

DuplicateAnswer == AddResp(FALSE, "Duplicate Serial detected in this batch.")

\* C1: the batch file never holds two data rows whose Serial Number is equal
\* after trimming and case-folding, unless both serials are empty.
C1_NoDuplicateSerials ==
    \A i, j \in DataRowsAt(CURRENT_CSV.rows) :
        (i # j /\ Key(CURRENT_CSV.rows[i]) = Key(CURRENT_CSV.rows[j]))
            => Key(CURRENT_CSV.rows[i]) = <<>>

\* C2: the check-then-append of append_row is atomic: two requests with the
\* same non-empty key are never both past the duplicate test and about to
\* write.
C2_CheckThenAppendAtomic ==
    \A t, u \in Threads :
        (t # u /\ PassedCheck(t) /\ PassedCheck(u) /\ Lower(serial[t]) = Lower(serial[u]))
            => serial[t] = <<>>

\* C3: an append whose key is the key of a row of the batch file is answered
\* accepted=false with the duplicate message, and changes neither the batch
\* file nor SEEN_SERIALS.
C3_DuplicateRejected ==
    [][\A t \in Threads :
          (/\ pc[t] = "check" /\ pc'[t] # "check"
           /\ Key(BuildRow(data[t], Get(data[t], "Serial Number", <<>>))) # <<>>
           /\ RowsWithKey(Key(BuildRow(data[t], Get(data[t], "Serial Number", <<>>)))) # {})
          => /\ resp'[t] = DuplicateAnswer
             /\ CURRENT_CSV' = CURRENT_CSV
             /\ SEEN_SERIALS' = SEEN_SERIALS]_vars

\* The thread has just answered the request `o`.
Answered(t, o) == pc[t] = "done" /\ resp[t].op = o

Min(a, b) == IF a <= b THEN a ELSE b

\* C4: /recent answers with the last min(k, 5) of the k data rows appended to
\* the batch, the most recent first, and never with the header row; with no
\* data row it answers with the empty list.  (One request at a time: the file
\* is the one the handler read.)
C4_RecentLastFive ==
    \A t \in Threads :
        Answered(t, "recent") =>
            LET rows == CURRENT_CSV.rows
                k == Len(rows) - 1
                items == resp[t].items
            IN /\ rows # <<>> /\ Head(rows) = CSV_HEADERS
               /\ Len(items) = Min(k, 5)
               /\ \A i \in 1..Len(items) :
                      items[i] = rows[Len(rows) + 1 - i] /\ items[i] # CSV_HEADERS

\* C4, witness: six data rows were appended and /recent answered with five.
C4_Witness ==
    \E t \in Threads :
        /\ Answered(t, "recent")
        /\ Len(CURRENT_CSV.rows) > 6
        /\ Len(resp[t].items) = 5
        /\ resp[t].items[1] # resp[t].items[2]

\* The step in which api_finalize answers ok.
FinalizeSucceeds(t) == pc[t] = "finalize" /\ pc'[t] = "done" /\ resp'[t].ok

\* C5: a successful /finalize writes one export whose rows are the rows of the
\* batch file, header included and in order, deletes the batch file and clears
\* SEEN_SERIALS; and a /recent that reads the batch while no row has been
\* appended since answers with the empty list.
C5_FinalizeRotates ==
    [][\A t \in Threads :
          /\ FinalizeSucceeds(t) =>
                /\ resp'[t].filename \notin DOMAIN COMPLETED_FOLDER
                /\ DOMAIN COMPLETED_FOLDER' = DOMAIN COMPLETED_FOLDER \cup {resp'[t].filename}
                /\ COMPLETED_FOLDER'[resp'[t].filename].complete
                /\ COMPLETED_FOLDER'[resp'[t].filename].rows = CURRENT_CSV.rows
                /\ ~CURRENT_CSV'.exists
                /\ SEEN_SERIALS' = {}
          /\ (pc[t] = "recent_read" /\ pc'[t] = "done" /\ lastFinalize.empty)
                => resp'[t].items = <<>>]_vars

\* C5, witness: a batch of header and data rows was exported, and the /recent
\* after it answered with the empty list.
C5_Witness ==
    \E t \in Threads :
        /\ Answered(t, "recent") /\ resp[t].items = <<>>
        /\ lastFinalize.empty
        /\ lastFinalize.filename \in DOMAIN COMPLETED_FOLDER
        /\ Len(COMPLETED_FOLDER[lastFinalize.filename].rows) > 1
        /\ Head(COMPLETED_FOLDER[lastFinalize.filename].rows) = CSV_HEADERS

\* The step in which api_finalize answers, one way or the other.
FinalizeAnswers(t) == pc[t] = "finalize" /\ pc'[t] = "done"

NoDataAnswer == FinalizeError(400, "No data to finalize")

\* The day in a name that DestName gave.
DayOf(filename) == filename[1]

\* C6 as stated: a /finalize that follows a successful /finalize of the same
\* day, with no other operation in between, succeeds too and writes a second,
\* distinct file, the first one kept as it was.
C6_SecondFinalizeSucceeds ==
    [][\A t \in Threads :
          (FinalizeAnswers(t) /\ lastFinalize.quiet) =>
              /\ resp'[t].ok
              /\ resp'[t].filename # lastFinalize.filename
              /\ DayOf(resp'[t].filename) = DayOf(lastFinalize.filename)
              /\ COMPLETED_FOLDER'[lastFinalize.filename] = COMPLETED_FOLDER[lastFinalize.filename]]_vars

\* C6 as amended: with no other operation in between, the second /finalize
\* answers NoData and writes nothing; a /finalize that succeeds on the day of
\* the last successful one (the batch file was created again in between)
\* writes a distinct file, <day>-cph-crc-1.xlsx after <day>-cph-crc.xlsx when
\* no numbered file existed, and the first file is kept as it was.
C6_SecondFinalizeNeedsBatch ==
    [][\A t \in Threads :
          /\ (FinalizeAnswers(t) /\ lastFinalize.quiet) =>
                /\ resp'[t] = NoDataAnswer
                /\ UNCHANGED <<CURRENT_CSV, COMPLETED_FOLDER, SEEN_SERIALS>>
          /\ (/\ FinalizeSucceeds(t)
              /\ lastFinalize.filename # <<>>
              /\ DayOf(resp'[t].filename) = DayOf(lastFinalize.filename)) =>
                /\ resp'[t].filename # lastFinalize.filename
                /\ COMPLETED_FOLDER'[lastFinalize.filename] = COMPLETED_FOLDER[lastFinalize.filename]
                /\ LET base == BaseName(DayOf(lastFinalize.filename))
                   IN (/\ lastFinalize.filename = PlainName(base)
                       /\ NumberedName(base, 1) \notin DOMAIN COMPLETED_FOLDER)
                      => resp'[t].filename = NumberedName(base, 1)]_vars

\* C6, witness: the second of two /finalize calls in a row has answered NoData,
\* the first one's export being the only file of the archive.
C6_Witness ==
    \E t \in Threads :
        /\ Answered(t, "finalize") /\ resp[t] = NoDataAnswer
        /\ lastFinalize.quiet
        /\ DOMAIN COMPLETED_FOLDER = {lastFinalize.filename}

\* The name is the date-based one, or the numbered one with the first free
\* number, for the directory `names`.
FirstFreeName(filename, names) ==
    \E day \in Days \cup DaysSeq :
        LET base == BaseName(day)
        IN \/ filename = PlainName(base) /\ PlainName(base) \notin names
           \/ /\ PlainName(base) \in names
              /\ \E n \in 1..(Cardinality(names) + 1) :
                    /\ filename = NumberedName(base, n)
                    /\ filename \notin names
                    /\ \A m \in 1..(n - 1) : NumberedName(base, m) \in names

\* C7: exports are write-once.  No step removes or changes a file of the
\* archive, and a successful /finalize writes a complete export under a name
\* that was not in the archive: the date-based name, else the first free -N.
\* (So no two successful /finalize calls return the same name.)
C7_ExportsWriteOnce ==
    [][/\ \A n \in DOMAIN COMPLETED_FOLDER :
              n \in DOMAIN COMPLETED_FOLDER' /\ COMPLETED_FOLDER'[n] = COMPLETED_FOLDER[n]
       /\ \A t \in Threads :
              FinalizeSucceeds(t) =>
                 /\ resp'[t].filename \notin DOMAIN COMPLETED_FOLDER
                 /\ FirstFreeName(resp'[t].filename, DOMAIN COMPLETED_FOLDER)
                 /\ resp'[t].filename \in DOMAIN COMPLETED_FOLDER'
                 /\ COMPLETED_FOLDER'[resp'[t].filename].complete]_vars

\* C7, witness: a second /finalize of the day has just returned the name with
\* the suffix -1, next to the first export.
C7_Witness ==
    \E t \in Threads, day \in Days :
        /\ Answered(t, "finalize") /\ resp[t].ok
        /\ resp[t].filename = NumberedName(BaseName(day), 1)
        /\ PlainName(BaseName(day)) \in DOMAIN COMPLETED_FOLDER
        /\ COMPLETED_FOLDER[PlainName(BaseName(day))].complete

\* C8: /finalize with no batch file answers the NoData error and changes
\* nothing: no export and no batch file is created, SEEN_SERIALS is kept.
C8_NoDataChangesNothing ==
    [][\A t \in Threads :
          (FinalizeAnswers(t) /\ ~CURRENT_CSV.exists) =>
              /\ resp'[t] = NoDataAnswer
              /\ COMPLETED_FOLDER' = COMPLETED_FOLDER
              /\ CURRENT_CSV' = CURRENT_CSV
              /\ SEEN_SERIALS' = SEEN_SERIALS]_vars

\* C8, witness: /finalize has answered NoData, there being no batch file.
C8_Witness ==
    \E t \in Threads :
        Answered(t, "finalize") /\ resp[t] = NoDataAnswer /\ ~CURRENT_CSV.exists

\* C9: a /finalize that fails (conversion, write of the export, removal of the
\* batch file) reports the error and leaves the batch file and SEEN_SERIALS as
\* they were.
C9_FailedFinalizeKeepsBatch ==
    [][\A t \in Threads :
          (FinalizeAnswers(t) /\ CURRENT_CSV.exists /\ ~resp'[t].ok) =>
              /\ resp'[t] = FinalizeError(500, "str(e)")
              /\ CURRENT_CSV' = CURRENT_CSV
              /\ SEEN_SERIALS' = SEEN_SERIALS]_vars

\* C9, witness: /finalize has failed on a batch with a data row whose serial
\* is still remembered, and the failed write left a partial file.
C9_Witness ==
    \E t \in Threads :
        /\ Answered(t, "finalize") /\ resp[t].code = 500
        /\ \E i \in DataRowsAt(CURRENT_CSV.rows) :
              Key(CURRENT_CSV.rows[i]) # <<>> /\ Key(CURRENT_CSV.rows[i]) \in SEEN_SERIALS
        /\ \E n \in DOMAIN COMPLETED_FOLDER : ~COMPLETED_FOLDER[n].complete

\* C10: /reset_batch leaves the batch file with the header row alone, whatever
\* it held, and SEEN_SERIALS empty, so that no serial of the old batch is a
\* duplicate any more; the archive is left as it was.
C10_ResetToHeader ==
    [][\A t \in Threads :
          (pc[t] = "reset" /\ pc'[t] = "done") =>
              /\ resp'[t] = ResetResp
              /\ CURRENT_CSV' = File(<<CSV_HEADERS>>)
              /\ SEEN_SERIALS' = {}
              /\ \A i \in 1..Len(CURRENT_CSV.rows) :
                    ~IsDuplicate(CURRENT_CSV.rows[i][3], SEEN_SERIALS')
              /\ COMPLETED_FOLDER' = COMPLETED_FOLDER]_vars

\* C10, witness: /reset_batch has answered and the batch file holds the header
\* alone, while a reader that opened the file before still holds a data row of
\* the old batch.
C10_Witness ==
    \E t, u \in Threads :
        /\ Answered(t, "reset")
        /\ CURRENT_CSV = File(<<CSV_HEADERS>>) /\ SEEN_SERIALS = {}
        /\ pc[u] = "load_add" /\ reader[u].rows # <<>>
        /\ COMPLETED_FOLDER # <<>>

\* The step in which ensure_csv runs its body.
EnsureActs(t) == pc[t] = "ensure" /\ pc'[t] # "ensure"

\* C11: ensure_csv creates the batch file with the header row alone when the
\* file is absent or empty and otherwise leaves it as it is; a second call
\* changes nothing (idempotent); no existing row is removed or rewritten, and
\* neither the archive nor SEEN_SERIALS is touched.
C11_EnsureIdempotent ==
    [][\A t \in Threads :
          EnsureActs(t) =>
              /\ (~CURRENT_CSV.exists \/ CURRENT_CSV.rows = <<>>)
                    => CURRENT_CSV' = File(<<CSV_HEADERS>>)
              /\ (CURRENT_CSV.exists /\ CURRENT_CSV.rows # <<>>)
                    => CURRENT_CSV' = CURRENT_CSV
              /\ EnsureCsvFile(CURRENT_CSV') = CURRENT_CSV'
              /\ \A i \in 1..Len(CURRENT_CSV.rows) :
                    i <= Len(CURRENT_CSV'.rows) /\ CURRENT_CSV'.rows[i] = CURRENT_CSV.rows[i]
              /\ UNCHANGED <<COMPLETED_FOLDER, SEEN_SERIALS>>]_vars

\* C11, witness: the start-up call of ensure_csv has created the batch file
\* (no file a previous run may have left holds the header alone).
C11_Witness ==
    \E t \in Threads :
        /\ op[t] = "main" /\ pc[t] = "load_clear"
        /\ CURRENT_CSV = File(<<CSV_HEADERS>>)

\* C12: a batch file that exists and is not empty has the header as its first
\* line, and every later line is one record (four fields, not the header).
C12_HeaderFirst ==
    (CURRENT_CSV.exists /\ CURRENT_CSV.rows # <<>>) =>
        /\ Head(CURRENT_CSV.rows) = CSV_HEADERS
        /\ \A i \in 2..Len(CURRENT_CSV.rows) :
              Len(CURRENT_CSV.rows[i]) = Len(CSV_HEADERS) /\ CURRENT_CSV.rows[i] # CSV_HEADERS

\* /lookup has answered with the fallback classification.
FellBack == lpc = "done" /\ lresp.code = 200 /\ ~lresp.body[1].found_in_snipe

\* The fallback answer puts the term in Temple Tag alone when `tagLike`, in
\* Serial Number alone otherwise.
ClassifiedBy(tagLike) ==
    LET r == lresp.body[1]
    IN /\ r.EquipmentType = COMPUTER /\ r.ItemDescription = <<>>
       /\ IF tagLike
          THEN r.TempleTag = term /\ r.SerialNumber = <<>>
          ELSE r.SerialNumber = term /\ r.TempleTag = <<>>

ShortDigits(t) == IsDigit(t) /\ Len(t) < 8

\* C13 as stated: when the registry gives nothing, a term that starts with
\* "CPH" or is all digits and shorter than 8 characters goes to Temple Tag
\* (Serial Number empty), and every other term goes to Serial Number (Temple
\* Tag empty).
C13_TagLikeAsStated ==
    FellBack => ClassifiedBy(StartsWith(term, CPH) \/ ShortDigits(term))

\* C13 as amended: the prefix is compared without regard to letter case
\* ("cph4" is tag-like too); the term is the trimmed one.
C13_TagLikeAnyCase ==
    FellBack => ClassifiedBy(StartsWith(Upper(term), CPH) \/ ShortDigits(term))

\* C13, witness: the three requests to the registry gave nothing and the term
\* of seven digits was answered as a tag.
C13_Witness ==
    /\ FellBack /\ Len(requests) = 3
    /\ term = <<"1","2","3","4","5","6","7">>
    /\ lresp.body[1].TempleTag = term /\ lresp.body[1].SerialNumber = <<>>

\* C14: lookup_snipe never raises to its caller: whatever the registry's
\* outcome, /lookup answers with the record lookup_snipe built or, when it
\* returned None, with the fallback classification of the term.
C14_LookupNeverRaises ==
    lpc = "done" =>
        /\ lresp.code = 200
        /\ IF res = <<>>
           THEN lresp.body[1] = Heuristic(term)
           ELSE lresp.body[1] = res[1] /\ res[1].found_in_snipe

\* The requests of one lookup, in the order of priority.
QueryOrder(t) == <<Request("bytag", t, 0), Request("byserial", t, 0), Request("search", t, 1)>>

\* The reply holds a result: a decoded 200 body that is an asset or has rows.
HasResult(reply) ==
    /\ ~reply.fails /\ reply.status = 200 /\ reply.body.kind # "invalid"
    /\ \/ reply.body.id
       \/ reply.body.kind = "object" /\ reply.body.hasRows /\ reply.body.rows # <<>>

\* The first row of a reply that holds a result.
FirstRow(reply) == IF reply.body.id THEN reply.body ELSE reply.body.rows[1]

\* C15: lookup_snipe queries by tag, then by serial, then by free-text search
\* with limit 1, and stops at the first result: a request is sent only after
\* every earlier one gave nothing, none is sent after a result, and the
\* record answered is built from the first row of the first result; with no
\* result after the three requests lookup_snipe returns None.
C15_QueryOrder ==
    /\ Len(requests) = Len(replies) /\ Len(requests) <= 3
    /\ requests = SubSeq(QueryOrder(term), 1, Len(requests))
    /\ \A i \in 1..(Len(requests) - 1) : ~HasResult(replies[i])
    /\ lpc = "bytag" => requests = <<>>
    /\ lpc = "byserial" => Len(requests) = 1 /\ ~HasResult(replies[1])
    /\ lpc = "search" => Len(requests) = 2 /\ ~HasResult(replies[2])
    /\ (lpc \in {"build", "answer", "done"} /\ requests # <<>>) =>
          \/ HasResult(replies[Len(replies)])
          \/ Len(requests) = 3 /\ res = <<>>
    /\ res # <<>> =>
          /\ requests # <<>> /\ HasResult(replies[Len(replies)])
          /\ LET hw == FirstRow(replies[Len(replies)])
             IN /\ res[1].SerialNumber = Get(hw.fields, "serial", <<>>)
                /\ res[1].TempleTag = Get(hw.fields, "asset_tag", <<>>)
                /\ res[1] = BuildRecord(hw)

\* C15, witness: by-tag and by-serial gave nothing, the search gave two rows
\* and the record answered is the one of the first.
C15_Witness ==
    /\ lpc = "done" /\ lresp.code = 200 /\ lresp.body[1].found_in_snipe
    /\ Len(requests) = 3
    /\ Len(replies[3].body.rows) = 2
    /\ lresp.body[1].SerialNumber = <<"S","2">>

\* No operation is in progress: every thread is idle or has answered.
Quiescent == \A t \in Threads : pc[t] \in {"idle", "done"}

\* The keys the duplicate guard would find by re-reading the batch file: the
\* case-folded non-empty serials of its data rows.
FileKeys == {Key(CURRENT_CSV.rows[i]) : i \in DataRowsAt(CURRENT_CSV.rows)} \ {<<>>}

\* C16: with no operation in progress, SEEN_SERIALS is the set of the
\* case-folded non-empty serials of the rows of the batch file, so that the
\* in-memory duplicate test decides as a re-read of the file would.
C16_SeenMirrorsFile == Quiescent => SEEN_SERIALS = FileKeys

\* The positions whose step reads or writes the batch file or SEEN_SERIALS:
\* the body of ensure_csv, the duplicate test and the write of append_row, the
\* read of api_recent, the bodies of api_finalize and api_reset_batch, and the
\* clear, the read and the loop of load_existing_serials.
AccessPoints ==
    {"ensure", "check", "append", "recent_read", "finalize", "reset",
     "load_clear", "load_read", "load_add"}

\* C17: every access of a request to the batch file or to SEEN_SERIALS is made
\* while holding CSV_LOCK: a thread that serves a request and is at a position
\* that reads or writes one of them holds the lock (so none does while another
\* thread holds it).  The start-up calls, made before any request is served,
\* are left out.
C17_AccessUnderLock ==
    \A t \in Threads :
        (op[t] # "main" /\ pc[t] \in AccessPoints) => CSV_LOCK = t

\* The serial of the request of thread t is empty after trimming.
EmptySerial(t) == Strip(Get(data[t], "Serial Number", <<>>)) = <<>>

\* C18: an append whose serial is empty or whitespace-only is never rejected
\* as a duplicate, whatever the batch holds: it passes the duplicate test,
\* its answer is never the duplicate message, the row it writes has the empty
\* serial, and no step of it changes SEEN_SERIALS.
C18_EmptySerialNeverDuplicate ==
    [][\A t \in Threads :
          /\ (pc[t] = "check" /\ pc'[t] # "check" /\ EmptySerial(t)) =>
                /\ pc'[t] = "append_lock"
                /\ SEEN_SERIALS' = SEEN_SERIALS
          /\ (pc[t] = "append" /\ pc'[t] = "done" /\ EmptySerial(t)) =>
                /\ resp'[t] # DuplicateAnswer
                /\ SEEN_SERIALS' = SEEN_SERIALS
                /\ resp'[t].ok =>
                      /\ Len(CURRENT_CSV'.rows) = Len(CURRENT_CSV.rows) + 1
                      /\ CURRENT_CSV'.rows[Len(CURRENT_CSV'.rows)][3] = <<>>]_vars

\* C18, witness: a whitespace-only serial has been accepted into a batch that
\* held two rows with an empty serial already, next to a remembered one.
C18_Witness ==
    \E t \in Threads :
        /\ Answered(t, "add") /\ resp[t].ok
        /\ data[t] = Obj1("Serial Number", <<" ">>)
        /\ Cardinality(RowsWithKey(<<>>)) >= 3
        /\ SEEN_SERIALS = {<<"a", "b">>}

\* The completed exports of the archive.
CompletedExports == {n \in DOMAIN COMPLETED_FOLDER : COMPLETED_FOLDER[n].complete}

\* The data rows stored in the batch file or in a completed export.
StoredRows ==
    {CURRENT_CSV.rows[i] : i \in DataRowsAt(CURRENT_CSV.rows)}
    \cup UNION { {COMPLETED_FOLDER[n].rows[i] : i \in DataRowsAt(COMPLETED_FOLDER[n].rows)} :
                 n \in CompletedExports }

\* How many copies of the row r the batch file and the completed exports hold.
Copies(r) ==
    Cardinality({i \in DataRowsAt(CURRENT_CSV.rows) : CURRENT_CSV.rows[i] = r})
    + Cardinality(UNION { {<<n, i>> : i \in {j \in DataRowsAt(COMPLETED_FOLDER[n].rows) :
                                                COMPLETED_FOLDER[n].rows[j] = r}} :
                          n \in CompletedExports })

\* The step in which append_row returns success for the row r.
Accepts(t, r) ==
    /\ pc[t] = "append" /\ pc'[t] = "done" /\ resp'[t].ok
    /\ r = BuildRow(data[t], serial[t])

\* C19: no accepted record is lost or exported twice.  Leaving /reset_batch
\* aside, a step changes the number of copies of a row held by the batch file
\* and the completed exports only when append_row accepts that row, which
\* adds one copy: so every accepted row stays in the batch file or in exactly
\* one completed export, never in both and never in neither.
C19_NoRowLostOrDoubled ==
    [][(\A t \in Threads : ~(pc[t] = "reset" /\ pc'[t] = "done")) =>
          \A r \in StoredRows \cup StoredRows' :
              Copies(r)' = Copies(r) + (IF \E t \in Threads : Accepts(t, r) THEN 1 ELSE 0)]_vars

\* The positions inside a `with CSV_LOCK:` block, and those that wait for it.
InsideLock == {"ensure", "append", "recent_read", "finalize", "reset"}
LockWaits == {"ensure_lock", "append_lock", "recent_lock", "finalize_lock", "reset_lock"}

\* The thread is inside a handler (or a start-up call) that has not returned.
Running(t) == pc[t] \notin {"idle", "done"}

\* C20: the lock discipline is free of deadlock.  A thread holds CSV_LOCK
\* exactly while it is inside a `with CSV_LOCK:` block: it never waits for the
\* lock while holding it, and it has released it on every path out of the
\* block (success, early return, exception).  And under fair scheduling every
\* request (and start-up call) that starts completes.
C20_NoDeadlock ==
    /\ [](\A t \in Threads :
            /\ CSV_LOCK = t <=> pc[t] \in InsideLock
            /\ pc[t] \in LockWaits => CSV_LOCK # t)
    /\ \A t \in Threads : Running(t) ~> ~Running(t)

\* C20, witness: /add, past ensure_csv, waits for the lock that /reset_batch
\* holds.
C20_Witness ==
    \E t, u \in Threads :
        /\ op[t] = "add" /\ pc[t] = "append_lock"
        /\ op[u] = "reset" /\ pc[u] = "reset" /\ CSV_LOCK = u

====
